---- MODULE Spec2Model ----
(***************************************************************************)
(* Wave Interference Simulation (src/main.py): a Streamlit script that is  *)
(* re-run from top to bottom on every widget change.  Each run derives the *)
(* time delay from the widgets, synthesizes three time-domain waves and    *)
(* asks the memoized function calculate_frequency_response for the         *)
(* frequency-response table.                                               *)
(*                                                                         *)
(* Number representation (the script computes in IEEE doubles; TLC has     *)
(* 32-bit integers only, so every real quantity is fixed point):           *)
(*   time       ticks of 1/TicksPerSecond s (0.050 s = 7992 ticks)         *)
(*   phase      ticks of 1/TicksPerSecond cycle: for an integer frequency  *)
(*              f in Hz, f Hz during d time ticks is f*d phase ticks       *)
(*   amplitude  units of 1/AmpScale                                        *)
(*   length     units of 1e-5 m                                            *)
(*   speed      a record [m, n] standing for m + n*1e-9 m/s, so that the   *)
(*              1e-9 guard of the delay derivation is representable        *)
(*   delay      a record [s, k] standing for s seconds + k ticks,          *)
(*              0 <= k < TicksPerSecond                                    *)
(*   rms        units of 1/RmsScale; RmsScale * NanoPerRms = 1e9, so the   *)
(*              1e-9 guard of the SPL formula is exactly one nano unit     *)
(*   SPL        centi-decibels (integer), -17699 = -176.99 dB              *)
(***************************************************************************)
EXTENDS Integers, Sequences, FiniteSets, TLC

TicksPerSecond == 160 * 999
HalfCycle == TicksPerSecond \div 2
AmpScale == 5 * 125
RmsScale == 32 * AmpScale
NanoPerRms == 50 * 1000

(***************************************************************************)
(* Widget declarations: defaults, minimum and step.                        *)
(***************************************************************************)
FrequencyDefault == 40
FrequencyMin == 20
FrequencyStep == 5
SpeedDefault == 343
LengthDefault == 0

(***************************************************************************)
(* np.sin on a phase given in ticks.  The argument is reduced modulo one   *)
(* cycle, folded onto a half cycle, and evaluated with Bhaskara's          *)
(* rational approximation  sin(pi*u) = 16u(1-u) / (5 - 4u(1-u)), which is  *)
(* exact at 0, 1/6, 1/2 of a half cycle and within 0.0017 elsewhere.  It   *)
(* keeps the symmetries of the sine that the interference depends on:      *)
(* Sin(p + cycle) = Sin(p), Sin(p + half cycle) = -Sin(p).                 *)
(***************************************************************************)
SinCalc(r) ==
    LET h == IF r < HalfCycle THEN r ELSE r - HalfCycle
        g == (h * (HalfCycle - h)) \div HalfCycle
        den == 5 * HalfCycle - 4 * g
        v == (16 * g * AmpScale + den \div 2) \div den
    IN  IF r < HalfCycle THEN v ELSE -v

\* A NumPy array or a list: the values F[lo], ..., F[hi] as a tuple.
RECURSIVE Array(_, _, _)
Array(F, lo, hi) ==
    IF lo = hi THEN <<F[lo]>>
    ELSE LET mid == (lo + hi) \div 2
         IN  Array(F, lo, mid) \o Array(F, mid + 1, hi)

\* One cycle of the sine, evaluated once.
SinTable == Array([i \in 1..TicksPerSecond |-> SinCalc(i - 1)], 1, TicksPerSecond)

Sin(p) == SinTable[(p % TicksPerSecond) + 1]

(***************************************************************************)
(* np.linspace(start, stop, num): num points, both endpoints included,     *)
(* step (stop - start) / (num - 1).                                        *)
(***************************************************************************)
\* np.linspace(start, stop, num, endpoint=False): step (stop - start) / num
LinspaceOpen(start, stop, num) ==
    Array([i \in 1..num |-> start + ((i - 1) * (stop - start)) \div num], 1, num)

Linspace(start, stop, num) ==
    Array([i \in 1..num |-> start + ((i - 1) * (stop - start)) \div (num - 1)], 1, num)

(***************************************************************************)
(* np.sqrt on a non-negative integer: the integer square root, by          *)
(* bisection on [lo, hi].                                                  *)
(***************************************************************************)
RECURSIVE SqrtBetween(_, _, _)
SqrtBetween(n, lo, hi) ==
    IF lo = hi THEN lo
    ELSE LET mid == (lo + hi + 1) \div 2
         IN  IF mid * mid <= n THEN SqrtBetween(n, mid, hi)
             ELSE SqrtBetween(n, lo, mid - 1)

Sqrt(n) == SqrtBetween(n, 0, 46340)

(***************************************************************************)
(* np.log10 on a positive integer n, in units of 1e-4: the decade is the   *)
(* number of digits, the fraction is found bit by bit by squaring the      *)
(* mantissa (kept in [4000, 40000), i.e. [1, 10) scaled by 4000).          *)
(***************************************************************************)
RECURSIVE Decade(_)
Decade(n) == IF n < 10 THEN 0 ELSE 1 + Decade(n \div 10)

RECURSIVE Pow10(_)
Pow10(k) == IF k = 0 THEN 1 ELSE 10 * Pow10(k - 1)

Mantissa(n) ==
    LET k == Decade(n)
    IN  IF k <= 4 THEN (n * 4000) \div Pow10(k)
        ELSE ((n \div Pow10(k - 4)) * 4000) \div 10000

RECURSIVE Pow2(_)
Pow2(k) == IF k = 0 THEN 1 ELSE 2 * Pow2(k - 1)

RECURSIVE FractionBits(_, _)
FractionBits(y, bits) ==
    IF bits = 0 THEN 0
    ELSE LET sq == (y * y) \div 4000
         IN  IF sq >= 40000
             THEN Pow2(bits - 1) + FractionBits(sq \div 10, bits - 1)
             ELSE FractionBits(sq, bits - 1)

Log10(n) ==
    Decade(n) * 10000 + (FractionBits(Mantissa(n), 14) * 10000) \div Pow2(14)

(***************************************************************************)
(* Model inputs.  The widgets accept frequency in [20, 200] Hz, speed in   *)
(* [300, 1000] m/s and path length in [0, 5] m.  Lengths are in 1e-5 m:    *)
(* 428750 is the 4.2875 m that gives a 12.5 ms delay at 343 m/s.           *)
(***************************************************************************)
MaxFrequencySteps == 4

Mps(m) == [m |-> m, n |-> 0]

Frequencies == {FrequencyMin + FrequencyStep * j : j \in 0..MaxFrequencySteps}
Speeds == {Mps(SpeedDefault), Mps(2 * SpeedDefault)}
Lengths == {LengthDefault, 428750}

(***************************************************************************)
(* Inputs of a direct invocation of the computation, without the widgets'  *)
(* range checks: frequency zero and above the widget range, speed zero,    *)
(* -1e-9 and -2e-9 m/s.                                                    *)
(***************************************************************************)
DirectFrequencies == {0, FrequencyDefault, 1000}
DirectSpeeds ==
    {Mps(SpeedDefault), Mps(0), [m |-> 0, n |-> -1], [m |-> 0, n |-> -2]}
DirectLengths == {LengthDefault, 214375}

(***************************************************************************)
(* time_delay_sec = length / (speed_of_sound + 1e-9)                       *)
(***************************************************************************)
\* speed_of_sound + 1e-9
Denominator(speed) == [m |-> speed.m, n |-> speed.n + 1]

\* Python's float division raises ZeroDivisionError on a zero denominator.
DivisionFaults(path_length, speed) ==
    Denominator(speed).m = 0 /\ Denominator(speed).n = 0

\* a / b for b > 0, rounded to the nearest integer.
RoundDiv(a, b) == (2 * a + b) \div (2 * b)

\* A number of ticks as a delay record.
Ticks(total) == [s |-> total \div TicksPerSecond, k |-> total % TicksPerSecond]

\* The quotient with the path length clamped to at least the widget's step,
\* 0.1 m.
DelayClamped(path_length, speed) ==
    LET len == IF path_length < 10000 THEN 10000 ELSE path_length
        den == Denominator(speed)
        sign == IF den.m < 0 \/ (den.m = 0 /\ den.n < 0) THEN -1 ELSE 1
    IN  IF den.m # 0
        THEN Ticks(RoundDiv(sign * len * (TicksPerSecond \div 80),
                            sign * den.m * (100000 \div 80)))
        ELSE LET num == sign * len * 10000
                 d == sign * den.n
             IN  [s |-> num \div d, k |-> ((num % d) * TicksPerSecond) \div d]

\* The quotient, for a non-zero denominator.  With a denominator of at
\* least 1 m/s in magnitude the 1e-9 is far below a tick and the quotient
\* is length / m rounded to the tick; with a denominator of n * 1e-9 m/s
\* the quotient is length * 1e9 / n seconds.
Delay(path_length, speed) ==
    LET den == Denominator(speed)
        sign == IF den.m < 0 \/ (den.m = 0 /\ den.n < 0) THEN -1 ELSE 1
    IN  IF den.m # 0
        THEN Ticks(RoundDiv(sign * path_length * (TicksPerSecond \div 80),
                            sign * den.m * (100000 \div 80)))
        ELSE LET num == sign * path_length * 10000
                 d == sign * den.n
             IN  [s |-> num \div d, k |-> ((num % d) * TicksPerSecond) \div d]

Zero == [s |-> 0, k |-> 0]

(***************************************************************************)
(* Wave synthesis (the time-domain plot).                                  *)
(***************************************************************************)
\* t = np.linspace(0, 0.050, 1000)
t == Linspace(0, TicksPerSecond \div 20, 1000)

\* omega = 2 * np.pi * frequency: phase ticks per time tick.
omega(freq) == freq

\* omega * (time - delay) as a phase.  The frequency is integral, so the
\* whole seconds of the delay are whole cycles and drop out of the phase.
Phase(w, time, delay) == w * (time - delay.k)

\* wave1 = 1 * np.sin(omega * t)
wave1(freq) ==
    Array([i \in 1..Len(t) |-> 1 * Sin(Phase(omega(freq), t[i], Zero))], 1, Len(t))

\* wave2 without the inversion: np.sin(omega * (t - time_delay_sec))
wave2_upright(freq, delay) ==
    Array([i \in 1..Len(t) |-> 1 * Sin(Phase(omega(freq), t[i], delay))], 1, Len(t))

\* wave2 = -1 * np.sin(omega * (t - time_delay_sec))
wave2(freq, delay) ==
    Array([i \in 1..Len(t) |-> -1 * Sin(Phase(omega(freq), t[i], delay))], 1, Len(t))

\* wave3 as the difference: wave1 - wave2
wave3_difference(w1, w2) == Array([i \in 1..Len(w1) |-> w1[i] - w2[i]], 1, Len(w1))

\* wave3 = wave1 + wave2
wave3(w1, w2) == Array([i \in 1..Len(w1) |-> w1[i] + w2[i]], 1, Len(w1))

\* df_wide
Synthesize(freq, delay) ==
    LET w1 == wave1(freq)
        w2 == wave2(freq, delay)
    IN  [t |-> t, wave1 |-> w1, wave2 |-> w2, wave3 |-> wave3(w1, w2)]

(***************************************************************************)
(* calculate_frequency_response: the SPL of wave 3 from 20 Hz to 500 Hz.   *)
(***************************************************************************)
\* freq_range = np.linspace(20, 500, 481)
freq_range == Linspace(20, 500, 481)

\* t_sweep = np.linspace(0, 0.1, 1000)
t_sweep == Linspace(0, TicksPerSecond \div 10, 1000)

\* rms_ref = 1 / np.sqrt(2), in units of 1e-9
rms_ref == 707106781

wave1_sweep(f) ==
    [i \in 1..Len(t_sweep) |-> 1 * Sin(Phase(omega(f), t_sweep[i], Zero))]

\* wave2_sweep without the inversion
wave2_sweep_upright(f, delay) ==
    [i \in 1..Len(t_sweep) |-> 1 * Sin(Phase(omega(f), t_sweep[i], delay))]

wave2_sweep(f, delay) ==
    [i \in 1..Len(t_sweep) |-> -1 * Sin(Phase(omega(f), t_sweep[i], delay))]

wave3_sweep(w1, w2) == [i \in DOMAIN w1 |-> w1[i] + w2[i]]

\* np.square
Square(w) == [i \in DOMAIN w |-> LET x == w[i] IN x * x]

RECURSIVE SumBetween(_, _, _)
SumBetween(w, lo, hi) ==
    IF lo = hi THEN w[lo]
    ELSE LET mid == (lo + hi) \div 2
         IN  SumBetween(w, lo, mid) + SumBetween(w, mid + 1, hi)

\* len(w)
Size(w) == Cardinality(DOMAIN w)

\* np.mean
Mean(w) == SumBetween(w, 1, Size(w)) \div Size(w)

\* rms_wave3 = np.sqrt(np.mean(np.square(wave3_sweep))), in units of 1/RmsScale
Rms(w) ==
    Sqrt(Mean(Square(w)) * (RmsScale \div AmpScale) * (RmsScale \div AmpScale))

\* spl without the reference: 20 * np.log10(rms_wave3 + 1e-9)
SplAbsolute(rms) == (20 * (Log10(rms * NanoPerRms + 1) - 9 * 10000)) \div 100

\* spl = 20 * np.log10((rms_wave3 + 1e-9) / rms_ref), in centi-decibels
Spl(rms) == (20 * (Log10(rms * NanoPerRms + 1) - Log10(rms_ref))) \div 100

SweepPoint(f, delay) ==
    LET w3 == wave3_sweep(wave1_sweep(f), wave2_sweep(f, delay))
    IN  [Frequency_Hz |-> f, SPL_dB |-> Spl(Rms(w3))]

\* The body of calculate_frequency_response(delay, speed, path_length).
calculate_frequency_response(delay, speed, path_length) ==
    Array([j \in 1..Len(freq_range) |-> SweepPoint(freq_range[j], delay)], 1, Len(freq_range))

(***************************************************************************)
(* Both computations are pure, and TLC would evaluate them again at every  *)
(* step: they are tabulated once over the delays and frequencies that the  *)
(* model's inputs produce.  Every other argument is computed directly.     *)
(***************************************************************************)
AllFrequencies == Frequencies \cup DirectFrequencies

AllDelayTicks ==
    {Delay(p[1], p[2]).k :
        p \in {q \in (Lengths \X Speeds) \cup (DirectLengths \X DirectSpeeds) :
                  ~DivisionFaults(q[1], q[2])}}

SweepTable ==
    {[k |-> k, table |-> calculate_frequency_response([s |-> 0, k |-> k], 0, 0)] :
        k \in AllDelayTicks}

WaveTable ==
    {[f |-> f, k |-> k, wide |-> Synthesize(f, [s |-> 0, k |-> k])] :
        f \in AllFrequencies, k \in AllDelayTicks}

\* calculate_frequency_response(delay, speed, path_length), tabulated
FrequencyResponse(delay, speed, path_length) ==
    IF delay.k \in AllDelayTicks
    THEN (CHOOSE r \in SweepTable : r.k = delay.k).table
    ELSE calculate_frequency_response(delay, speed, path_length)

\* Synthesize(frequency, delay), tabulated
TimeSeries(freq, delay) ==
    IF freq \in AllFrequencies /\ delay.k \in AllDelayTicks
    THEN (CHOOSE r \in WaveTable : r.f = freq /\ r.k = delay.k).wide
    ELSE Synthesize(freq, delay)

(***************************************************************************)
(* State.                                                                  *)
(*   frequency, speed_of_sound, length   the widgets' values               *)
(*   time_delay_sec                      the derived delay of the last run *)
(*   df_wide, df_freq                    the tables handed to the charts   *)
(*   cache                               st.cache_data's entries of        *)
(*                                       calculate_frequency_response      *)
(*   fault                               the exception that ended the last *)
(*                                       run, or "none"                    *)
(* Observation only:                                                       *)
(*   recomputed   the last run executed the body of the cached function    *)
(*   computed     the argument triples the body was executed for           *)
(*   snapshot     the inputs and outputs of one earlier run, kept for      *)
(*                comparison with later runs                               *)
(***************************************************************************)
VARIABLES frequency, speed_of_sound, length, time_delay_sec, df_wide, df_freq,
          cache, fault, recomputed, computed, snapshot

vars == <<frequency, speed_of_sound, length, time_delay_sec, df_wide, df_freq,
          cache, fault, recomputed, computed, snapshot>>

\* A run that ended in an exception rendered no chart.
NoTimeSeries == [t |-> <<>>, wave1 |-> <<>>, wave2 |-> <<>>, wave3 |-> <<>>]
NoFrequencyResponse == <<>>

NoSnapshot ==
    [taken |-> FALSE, frequency |-> 0, speed |-> Mps(0), length |-> 0,
     wide |-> NoTimeSeries, freq |-> NoFrequencyResponse,
     fresh |-> FALSE, others |-> FALSE]

\* A key made of the delay alone.
CacheKeyDelay(delay, speed, path_length) == [delay |-> delay]

\* A key made of the path length alone.
CacheKeyLength(delay, speed, path_length) == [path_length |-> path_length]

\* @st.cache_data: the key of an entry is made of all the arguments.
CacheKey(delay, speed, path_length) ==
    [delay |-> delay, speed |-> speed, path_length |-> path_length]

\* A single-slot cache: a hit returns the table of the previous run.
CachedValueLatest(key) == df_freq

\* @st.cache_data: the value returned on a hit.
CachedValue(key) == cache[key]

\* The first run of the script, with the widgets' defaults and no cache.
Init ==
    LET delay == Delay(LengthDefault, Mps(SpeedDefault))
        table == FrequencyResponse(delay, Mps(SpeedDefault), LengthDefault)
    IN  /\ frequency = FrequencyDefault
        /\ speed_of_sound = Mps(SpeedDefault)
        /\ length = LengthDefault
        /\ time_delay_sec = delay
        /\ df_wide = TimeSeries(FrequencyDefault, delay)
        /\ df_freq = table
        /\ cache = (CacheKey(delay, Mps(SpeedDefault), LengthDefault) :> table)
        /\ fault = "none"
        /\ recomputed = TRUE
        /\ computed = {<<delay, Mps(SpeedDefault), LengthDefault>>}
        /\ snapshot = NoSnapshot

\* One run of the script, top to bottom, with the widgets at f, v, L.
Rerun(f, v, L) ==
    /\ frequency' = f
    /\ speed_of_sound' = v
    /\ length' = L
    /\ snapshot' =
          IF snapshot.taken /\ <<f, v, L>> #
                <<snapshot.frequency, snapshot.speed, snapshot.length>>
          THEN [snapshot EXCEPT !.others = TRUE]
          ELSE snapshot
    /\ IF DivisionFaults(L, v)
       THEN /\ fault' = "ZeroDivisionError"
            /\ df_wide' = NoTimeSeries
            /\ df_freq' = NoFrequencyResponse
            /\ recomputed' = FALSE
            /\ UNCHANGED <<time_delay_sec, cache, computed>>
       ELSE LET delay == Delay(L, v)
                key == CacheKey(delay, v, L)
                hit == key \in DOMAIN cache
                table == IF hit THEN CachedValue(key)
                         ELSE FrequencyResponse(delay, v, L)
            IN  /\ fault' = "none"
                /\ time_delay_sec' = delay
                /\ df_wide' = TimeSeries(f, delay)
                /\ df_freq' = table
                /\ cache' = IF hit THEN cache ELSE cache @@ (key :> table)
                /\ recomputed' = ~hit
                /\ computed' = IF hit THEN computed
                               ELSE computed \cup {<<delay, v, L>>}

\* The three widgets; a change of any of them re-runs the script.
SetFrequency(f) == Rerun(f, speed_of_sound, length)
SetSpeed(v) == Rerun(frequency, v, length)
SetLength(L) == Rerun(frequency, speed_of_sound, L)

\* The observer keeps the inputs and outputs of the current run.
Observe ==
    /\ ~snapshot.taken
    /\ fault = "none"
    /\ snapshot' = [taken |-> TRUE, frequency |-> frequency,
                    speed |-> speed_of_sound, length |-> length,
                    wide |-> df_wide, freq |-> df_freq,
                    fresh |-> recomputed, others |-> FALSE]
    /\ UNCHANGED <<frequency, speed_of_sound, length, time_delay_sec, df_wide,
                   df_freq, cache, fault, recomputed, computed>>

Next ==
    \/ \E f \in Frequencies : SetFrequency(f)
    \/ \E v \in Speeds : SetSpeed(v)
    \/ \E L \in Lengths : SetLength(L)
    \/ Observe

Spec == Init /\ [][Next]_vars

\* The computation invoked directly, with any numeric arguments.
Invoke(f, v, L) == Rerun(f, v, L)

NextDirect ==
    \E f \in DirectFrequencies, v \in DirectSpeeds, L \in DirectLengths :
        Invoke(f, v, L)

SpecDirect == Init /\ [][NextDirect]_vars

(***************************************************************************)
(* Properties.                                                             *)
(***************************************************************************)
\* A step that is a run of the script (Observe only takes the snapshot).
RunStep == snapshot'.taken = snapshot.taken

\* The scenario of 40 Hz, 343 m/s and 4.2875 m: a delay of 12.5 ms.
HalfPeriodScenario ==
    /\ fault = "none"
    /\ frequency = FrequencyDefault
    /\ speed_of_sound = Mps(SpeedDefault)
    /\ length = 428750

\* C1, as stated: at 40 Hz, 343 m/s and 4.2875 m (a delay of half the
\* period) the sum wave3 is 0 at every sample time.
C1_SumIsZeroAtHalfPeriod ==
    HalfPeriodScenario =>
        \A i \in DOMAIN df_wide.wave3 : df_wide.wave3[i] = 0

\* C1, amended: at 40 Hz, 343 m/s and 4.2875 m the delay is 12.5 ms, half
\* the period, the delayed inverted wave coincides with wave1, and the sum
\* wave3 is twice wave1 at every sample time (full constructive
\* reinforcement), so it is not identically 0.
C1_SumIsDoubleAtHalfPeriod ==
    HalfPeriodScenario =>
        /\ time_delay_sec = [s |-> 0, k |-> TicksPerSecond \div 80]
        /\ DOMAIN df_wide.wave3 = 1..1000
        /\ \A i \in DOMAIN df_wide.wave3 :
              /\ df_wide.wave2[i] = df_wide.wave1[i]
              /\ df_wide.wave3[i] = 2 * df_wide.wave1[i]
        /\ \E i \in DOMAIN df_wide.wave3 : df_wide.wave3[i] > AmpScale

C1_Witness ==
    /\ HalfPeriodScenario
    /\ \E i \in DOMAIN df_wide.wave3 : df_wide.wave3[i] < -AmpScale

\* The swept frequencies at which f * tau is a whole number n >= 1, and at
\* which it is a whole number plus one half.
WholeCycles(f, delay) == (f * delay.k) % TicksPerSecond = 0
HalfCycles(f, delay) == (f * delay.k) % TicksPerSecond = HalfCycle

\* An SPL of about +6 dB (20 * log10(2) = 6.02 dB), and an SPL at the
\* floor that the epsilon leaves, in centi-decibels.
AboutSixDecibels(spl) == 592 <= spl /\ spl <= 612
AtTheFloor(spl) == spl <= -17000

\* C2, as stated: for a delay tau > 0 the sweep has its peaks (about +6 dB)
\* at f = n / tau and its nulls at f = (n + 0.5) / tau; at 12.5 ms, a null
\* at 40 Hz and peaks at 80, 160 and 240 Hz.
C2_PeaksAtWholeCycles ==
    (fault = "none" /\ time_delay_sec.s = 0 /\ time_delay_sec.k > 0) =>
        \A j \in DOMAIN df_freq :
            /\ WholeCycles(df_freq[j].Frequency_Hz, time_delay_sec)
                  => AboutSixDecibels(df_freq[j].SPL_dB)
            /\ HalfCycles(df_freq[j].Frequency_Hz, time_delay_sec)
                  => AtTheFloor(df_freq[j].SPL_dB)

\* C2, amended: for a delay tau > 0 the sweep has its nulls (the epsilon
\* floor) at f = n / tau and an SPL of about +6 dB at f = (n + 0.5) / tau;
\* at 12.5 ms, about +6 dB at 40, 120 and 200 Hz and nulls at 80, 160 and
\* 240 Hz.
C2_PeaksAtHalfCycles ==
    (fault = "none" /\ time_delay_sec.s = 0 /\ time_delay_sec.k > 0) =>
        \A j \in DOMAIN df_freq :
            /\ WholeCycles(df_freq[j].Frequency_Hz, time_delay_sec)
                  => AtTheFloor(df_freq[j].SPL_dB)
            /\ HalfCycles(df_freq[j].Frequency_Hz, time_delay_sec)
                  => AboutSixDecibels(df_freq[j].SPL_dB)

C2_Witness ==
    /\ fault = "none"
    /\ time_delay_sec = [s |-> 0, k |-> TicksPerSecond \div 80]
    /\ \A f \in {40, 120, 200} :
          /\ df_freq[f - 19].Frequency_Hz = f
          /\ HalfCycles(f, time_delay_sec)
          /\ AboutSixDecibels(df_freq[f - 19].SPL_dB)
    /\ \A f \in {80, 160, 240} :
          /\ df_freq[f - 19].Frequency_Hz = f
          /\ WholeCycles(f, time_delay_sec)
          /\ AtTheFloor(df_freq[f - 19].SPL_dB)

\* C3, as stated: a run executes the body of the sweep only when its delay
\* differs from the delay of every entry computed before; a delay already
\* computed is answered from the cache.
C3_RecomputedOnlyOnNewDelay ==
    [][(RunStep /\ fault' = "none" /\ recomputed') =>
          \A c \in computed : c[1] # time_delay_sec']_vars

\* C3, amended: a run executes the body of the sweep exactly when the
\* argument triple (delay, speed of sound, path length) differs from every
\* triple computed before; a triple already computed is answered from the
\* cache.
C3_RecomputedOnNewTriple ==
    [][(RunStep /\ fault' = "none") =>
          (recomputed' =
              (<<time_delay_sec', speed_of_sound', length'>> \notin computed))]_vars

C3_Witness ==
    /\ fault = "none"
    /\ recomputed
    /\ \E c \in computed :
          c[1] = time_delay_sec /\ c[2] # speed_of_sound /\ c[3] = length

\* C4: the table handed to the chart is the table a fresh sweep with the
\* current delay produces, and a run that changes only the frequency
\* leaves the table unchanged.
C4_TableOfCurrentDelay ==
    /\ [](fault = "none" =>
            df_freq = FrequencyResponse(time_delay_sec, speed_of_sound, length))
    /\ [][(RunStep /\ fault = "none" /\ fault' = "none"
             /\ speed_of_sound' = speed_of_sound /\ length' = length)
          => df_freq' = df_freq]_vars

C4_Witness ==
    /\ fault = "none"
    /\ ~recomputed
    /\ frequency # FrequencyDefault
    /\ time_delay_sec.k > 0
    /\ Cardinality(DOMAIN cache) >= 3

\* C5: when the delay is 0 the sum wave3 is exactly 0 at every one of the
\* sample times, at every frequency.
C5_SumIsZeroWithoutDelay ==
    (fault = "none" /\ time_delay_sec = Zero) =>
        /\ DOMAIN df_wide.wave3 = 1..1000
        /\ \A i \in DOMAIN df_wide.wave3 : df_wide.wave3[i] = 0

C5_Witness ==
    /\ fault = "none"
    /\ time_delay_sec = Zero
    /\ frequency = FrequencyMin
    /\ \E i \in DOMAIN df_wide.wave1 : df_wide.wave1[i] > 0
    /\ \E i \in DOMAIN df_wide.wave3 : df_wide.wave3[i] = 0

\* C6: when the delay is 0 the SPL is the epsilon floor
\* 20 * log10(1e-9 * sqrt(2)) = -176.99 dB at each of the 481 swept
\* frequencies.
C6_FloorWithoutDelay ==
    (fault = "none" /\ time_delay_sec = Zero) =>
        /\ DOMAIN df_freq = 1..481
        /\ \A j \in DOMAIN df_freq :
              -17699 <= df_freq[j].SPL_dB /\ df_freq[j].SPL_dB <= -17698

C6_Witness ==
    /\ fault = "none"
    /\ time_delay_sec = Zero
    /\ speed_of_sound = Mps(2 * SpeedDefault)
    /\ df_freq[1].Frequency_Hz = 20
    /\ df_freq[481].Frequency_Hz = 500
    /\ df_freq[481].SPL_dB < -17000

\* C7: no invocation, whatever the numeric arguments, ends in a fault.
C7_NoFault == fault = "none"

C9_SameInputsSameOutputs ==
    (/\ snapshot.taken
     /\ fault = "none"
     /\ frequency = snapshot.frequency
     /\ speed_of_sound = snapshot.speed
     /\ length = snapshot.length) =>
        /\ df_wide = snapshot.wide
        /\ df_freq = snapshot.freq

C9_Witness ==
    /\ snapshot.taken
    /\ snapshot.others
    /\ snapshot.fresh
    /\ ~recomputed
    /\ fault = "none"
    /\ frequency = snapshot.frequency
    /\ speed_of_sound = snapshot.speed
    /\ length = snapshot.length
    /\ time_delay_sec.k > 0

\* C10: with a path length of 0 and a positive speed of sound the delay is
\* exactly 0.
C10_ZeroLengthZeroDelay ==
    (/\ fault = "none"
     /\ length = 0
     /\ (speed_of_sound.m > 0 \/ (speed_of_sound.m = 0 /\ speed_of_sound.n > 0)))
       => time_delay_sec = Zero

C10_Witness ==
    /\ fault = "none"
    /\ length = 0
    /\ speed_of_sound = Mps(2 * SpeedDefault)
    /\ frequency # FrequencyDefault
    /\ time_delay_sec = Zero
====
